---- MODULE Spec2Model ----
(***************************************************************************)
(* Receipt processor: POST /receipts/process validates a receipt, scores   *)
(* it with calculate_points and stores the score under a fresh uuid4;      *)
(* GET /receipts/{id}/points reads the score back.                         *)
(*                                                                         *)
(* Python str values are sequences of one-character strings, Python int    *)
(* values (arbitrary precision) are big-endian sequences of decimal        *)
(* digits, and Python float values are IEEE-754 binary64 numbers m * 2^x   *)
(* with a 53-bit significand, rounded to nearest-even as CPython does.     *)
(***************************************************************************)
EXTENDS Integers, Sequences, FiniteSets, Bags, TLC

\* ------------------------------------------------------------------------
\* Characters and str methods
\* ------------------------------------------------------------------------

DigitChars == {"0", "1", "2", "3", "4", "5", "6", "7", "8", "9"}

DigitVal ==
    "0" :> 0 @@ "1" :> 1 @@ "2" :> 2 @@ "3" :> 3 @@ "4" :> 4 @@
    "5" :> 5 @@ "6" :> 6 @@ "7" :> 7 @@ "8" :> 8 @@ "9" :> 9

DigitChar ==
    0 :> "0" @@ 1 :> "1" @@ 2 :> "2" @@ 3 :> "3" @@ 4 :> "4" @@
    5 :> "5" @@ 6 :> "6" @@ 7 :> "7" @@ 8 :> "8" @@ 9 :> "9"

LetterChars ==
    {"a", "b", "c", "d", "e", "f", "g", "h", "i", "j", "k", "l", "m",
     "n", "o", "p", "q", "r", "s", "t", "u", "v", "w", "x", "y", "z",
     "A", "B", "C", "D", "E", "F", "G", "H", "I", "J", "K", "L", "M",
     "N", "O", "P", "Q", "R", "S", "T", "U", "V", "W", "X", "Y", "Z"}

\* the characters str.strip() removes (str.isspace), within the alphabet used
WhitespaceChars == {" ", "\t", "\n", "\r"}

\* c.isalnum()
isalnum(c) == c \in LetterChars \cup DigitChars

IsDigits(s) == \A i \in 1..Len(s) : s[i] \in DigitChars

RECURSIVE lstrip(_)
lstrip(s) ==
    IF s # <<>> /\ s[1] \in WhitespaceChars THEN lstrip(Tail(s)) ELSE s

RECURSIVE rstrip(_)
rstrip(s) ==
    IF s # <<>> /\ s[Len(s)] \in WhitespaceChars
    THEN rstrip(SubSeq(s, 1, Len(s) - 1))
    ELSE s

\* s.strip()
strip(s) == rstrip(lstrip(s))

\* ------------------------------------------------------------------------
\* Python int (arbitrary precision): big-endian sequence of base-10^4
\* digits, no leading zero digit, zero is <<0>>.  Intermediate values are
\* handed on as operator arguments, which are evaluated once.
\* ------------------------------------------------------------------------

Base == 10000

SetMin(S) == CHOOSE m \in S : \A n \in S : m <= n

DropLeading(a, nz) ==
    IF nz = {} THEN <<0>> ELSE SubSeq(a, SetMin(nz), Len(a))

BigNorm(a) == DropLeading(a, {i \in 1..Len(a) : a[i] # 0})

PadLeft(a, n) == [i \in 1..(n - Len(a)) |-> 0] \o a

GroupDigits(p) ==
    [i \in 1..(Len(p) \div 4) |->
        p[4 * i - 3] * 1000 + p[4 * i - 2] * 100 + p[4 * i - 1] * 10 + p[4 * i]]

\* int("d1 d2 ... dn") for a sequence of decimal digit values
FromDigits(ds) ==
    BigNorm(GroupDigits(PadLeft(ds, 4 * ((Len(ds) + 3) \div 4))))

\* a small int 0 <= n < 10^8 as a Python int
SmallToBig(n) == BigNorm(<<n \div Base, n % Base>>)

BigIsZero(a) == a = <<0>>

BigIsOdd(a) == a[Len(a)] % 2 = 1

RECURSIVE AddFrom(_, _, _, _)
AddFrom(a, b, i, c) ==
    IF i = 0 THEN (IF c = 0 THEN <<>> ELSE <<c>>)
    ELSE Append(AddFrom(a, b, i - 1, (a[i] + b[i] + c) \div Base),
                (a[i] + b[i] + c) % Base)

AddPadded(a, b, n) == BigNorm(AddFrom(PadLeft(a, n), PadLeft(b, n), n, 0))

\* a + b
BigAdd(a, b) == AddPadded(a, b, IF Len(a) > Len(b) THEN Len(a) ELSE Len(b))

RECURSIVE MulFrom(_, _, _, _)
MulFrom(a, k, i, c) ==
    IF i = 0 THEN SmallToBig(c)
    ELSE Append(MulFrom(a, k, i - 1, (a[i] * k + c) \div Base),
                (a[i] * k + c) % Base)

\* a * k for 0 <= k <= 2^16
BigMulSmall(a, k) == BigNorm(MulFrom(a, k, Len(a), 0))

RECURSIVE DivFrom(_, _, _, _, _)
DivFrom(a, d, i, r, q) ==
    IF i > Len(a) THEN [q |-> BigNorm(q), r |-> r]
    ELSE DivFrom(a, d, i + 1, (r * Base + a[i]) % d,
                 Append(q, (r * Base + a[i]) \div d))

\* divmod(a, d) for 0 < d <= 2^16
BigDivSmall(a, d) == DivFrom(a, d, 1, 0, <<>>)

RECURSIVE MulAcc(_, _, _, _)
MulAcc(a, b, i, acc) ==
    IF i > Len(b) THEN acc
    ELSE MulAcc(a, b, i + 1,
                BigAdd(BigMulSmall(acc, Base), BigMulSmall(a, b[i])))

\* a * b
BigMul(a, b) == MulAcc(a, b, 1, <<0>>)

RECURSIVE SmallPow2(_)
SmallPow2(k) == IF k = 0 THEN 1 ELSE 2 * SmallPow2(k - 1)

RECURSIVE SmallBitLength(_)
SmallBitLength(n) == IF n = 0 THEN 0 ELSE 1 + SmallBitLength(n \div 2)

\* shifts go 16 bits at a time at most
Chunk(k) == IF k > 16 THEN 16 ELSE k

\* a << k
RECURSIVE ShiftLeft(_, _)
ShiftLeft(a, k) ==
    IF k = 0 THEN a
    ELSE ShiftLeft(BigMulSmall(a, SmallPow2(Chunk(k))), k - Chunk(k))

Shifted(h, sticky) == [q |-> h.q, sticky |-> sticky \/ h.r # 0]

\* s.q >> k; sticky = TRUE iff a nonzero bit was shifted out
RECURSIVE ShiftRightFrom(_, _)
ShiftRightFrom(s, k) ==
    IF k = 0 THEN s
    ELSE ShiftRightFrom(Shifted(BigDivSmall(s.q, SmallPow2(Chunk(k))), s.sticky),
                        k - Chunk(k))

ShiftRight(a, k, sticky) == ShiftRightFrom([q |-> a, sticky |-> sticky], k)

\* a.bit_length()
RECURSIVE BitLength(_)
BitLength(a) ==
    IF Len(a) = 1 THEN SmallBitLength(a[1])
    ELSE 13 + BitLength(BigDivSmall(a, SmallPow2(13)).q)

\* ------------------------------------------------------------------------
\* Python float: IEEE-754 binary64.  A finite value is m * 2^x with m an
\* int of at most 53 bits (or exactly 2^53); inf is its own value.
\* ------------------------------------------------------------------------

MantissaBits == 53

\* a finite binary64 is below 2^MaxExponent
MaxExponent == 1024

\* 10^MaxIntDigits > 2^MaxExponent: a longer integer part is above every binary64
MaxIntDigits == 309

FloatInf == [inf |-> TRUE, m |-> <<0>>, x |-> 0]

FloatZero == [inf |-> FALSE, m |-> <<0>>, x |-> 0]

\* h = divmod(v, 2): v / 2 to nearest, ties to even; sticky says that the
\* exact value is slightly above v
RoundHalf(h, sticky) ==
    IF h.r = 1 /\ (sticky \/ BigIsOdd(h.q)) THEN BigAdd(h.q, <<1>>) ELSE h.q

RoundLast(s1) == RoundHalf(BigDivSmall(s1.q, 2), s1.sticky)

\* q / 2^k (k >= 1) rounded to nearest, ties to even
RoundShift(q, k, sticky0) == RoundLast(ShiftRight(q, k - 1, sticky0))

\* m * 2^e as a binary64: overflow gives inf
Finite(m, e) ==
    IF BitLength(m) + e > MaxExponent THEN FloatInf
    ELSE [inf |-> FALSE, m |-> m, x |-> e]

RoundBits(q, x, sticky0, k) ==
    IF k >= 1 THEN Finite(RoundShift(q, k, sticky0), x + k) ELSE Finite(q, x)

\* the binary64 nearest to (q + eps) * 2^x, eps in [0, 1), eps > 0 iff sticky0
RoundToFloat(q, x, sticky0) ==
    RoundBits(q, x, sticky0, BitLength(q) - MantissaBits)

RECURSIVE Pow10Small(_)
Pow10Small(f) == IF f = 0 THEN 1 ELSE 10 * Pow10Small(f - 1)

DotPos(s) == CHOOSE i \in 1..Len(s) : s[i] = "."

\* number of digits of the integer part ip without its leading zeros
SignificantFrom(ip, sig) == IF sig = {} THEN 0 ELSE Len(ip) + 1 - SetMin(sig)

SignificantDigits(ip) == SignificantFrom(ip, {i \in 1..Len(ip) : ip[i] # "0"})

DigitValues(s) == [i \in 1..Len(s) |-> DigitVal[s[i]]]

\* d = divmod(N * 2^s2, den)
RoundQuotient(d, s2) == RoundToFloat(d.q, 0 - s2, d.r # 0)

\* N / den with at least MantissaBits + 2 bits of quotient before rounding
ScaledQuotient(N, den, s2) ==
    RoundQuotient(BigDivSmall(ShiftLeft(N, s2), den), s2)

ScaleBits(bl, want) == IF bl >= want THEN 0 ELSE want - bl

\* the correctly rounded binary64 of N / den
FloatOfRatio(N, den) ==
    IF BigIsZero(N) THEN FloatZero
    ELSE ScaledQuotient(N, den,
                        ScaleBits(BitLength(N),
                                  MantissaBits + 2 + SmallBitLength(den)))

FloatOfParts(ip, fp) ==
    IF SignificantDigits(ip) > MaxIntDigits THEN FloatInf
    ELSE FloatOfRatio(FromDigits(DigitValues(ip \o fp)), Pow10Small(Len(fp)))

\* float(s) for a decimal literal "<digits>.<digits>": the correctly rounded
\* binary64 of N / 10^f, N the digits without the point, f the fraction length
float(s) ==
    FloatOfParts(SubSeq(s, 1, DotPos(s) - 1), SubSeq(s, DotPos(s) + 1, Len(s)))

\* a * b in binary64
FloatMul(a, b) ==
    IF a.inf \/ b.inf THEN FloatInf
    ELSE IF BigIsZero(a.m) \/ BigIsZero(b.m) THEN FloatZero
    ELSE RoundToFloat(BigMul(a.m, b.m), a.x + b.x, FALSE)

\* m * 2^x is a multiple of 2^y
MultipleOfPow2(f, y) ==
    \/ BigIsZero(f.m)
    \/ f.x >= y
    \/ ~ShiftRight(f.m, y - f.x, FALSE).sticky

\* f.is_integer()
is_integer(f) == ~f.inf /\ MultipleOfPow2(f, 0)

\* f % 0.25 == 0: fmod is exact, so the test is divisibility by 2^-2;
\* inf % 0.25 is nan, which is not equal to 0
ModQuarterIsZero(f) == ~f.inf /\ MultipleOfPow2(f, 0 - 2)

CeilShifted(s) == IF s.sticky THEN BigAdd(s.q, <<1>>) ELSE s.q

\* math.ceil(f) of a finite float, as a Python int
ceil(f) ==
    IF BigIsZero(f.m) THEN <<0>>
    ELSE IF f.x >= 0 THEN ShiftLeft(f.m, f.x)
    ELSE CeilShifted(ShiftRight(f.m, 0 - f.x, FALSE))

\* the literal 0.2 of main.py line 95
Float02 == float(<<"0", ".", "2">>)

\* ------------------------------------------------------------------------
\* datetime.strptime / strftime for the formats the code uses
\* ------------------------------------------------------------------------

RECURSIVE IntOfFrom(_, _, _)
IntOfFrom(s, i, acc) ==
    IF i > Len(s) THEN acc ELSE IntOfFrom(s, i + 1, acc * 10 + DigitVal[s[i]])

\* int(s) for a short digit string
IntOf(s) == IntOfFrom(s, 1, 0)

\* _strptime regex of %Y: \d\d\d\d
MatchesY(s) == Len(s) = 4 /\ IsDigits(s)

\* _strptime regex of %m: 1[0-2]|0[1-9]|[1-9]
MatchesMonth(s) ==
    \/ Len(s) = 2 /\ s[1] = "1" /\ s[2] \in {"0", "1", "2"}
    \/ Len(s) = 2 /\ s[1] = "0" /\ s[2] \in DigitChars \ {"0"}
    \/ Len(s) = 1 /\ s[1] \in DigitChars \ {"0"}

\* _strptime regex of %d: 3[0-1]|[1-2]\d|0[1-9]|[1-9]| [1-9]
MatchesDay(s) ==
    \/ Len(s) = 2 /\ s[1] = "3" /\ s[2] \in {"0", "1"}
    \/ Len(s) = 2 /\ s[1] \in {"1", "2"} /\ s[2] \in DigitChars
    \/ Len(s) = 2 /\ s[1] \in {"0", " "} /\ s[2] \in DigitChars \ {"0"}
    \/ Len(s) = 1 /\ s[1] \in DigitChars \ {"0"}

\* _strptime regex of %H: 2[0-3]|[0-1]\d|\d
MatchesHour(s) ==
    \/ Len(s) = 2 /\ s[1] = "2" /\ s[2] \in {"0", "1", "2", "3"}
    \/ Len(s) = 2 /\ s[1] \in {"0", "1"} /\ s[2] \in DigitChars
    \/ Len(s) = 1 /\ s[1] \in DigitChars

\* _strptime regex of %M: [0-5]\d|\d
MatchesMinute(s) ==
    \/ Len(s) = 2 /\ s[1] \in {"0", "1", "2", "3", "4", "5"}
                  /\ s[2] \in DigitChars
    \/ Len(s) = 1 /\ s[1] \in DigitChars

IsLeap(y) == y % 4 = 0 /\ (y % 100 # 0 \/ y % 400 = 0)

DaysInMonth(y, m) ==
    IF m = 2 THEN (IF IsLeap(y) THEN 29 ELSE 28)
    ELSE IF m \in {4, 6, 9, 11} THEN 30
    ELSE 31

\* datetime.MINYEAR
MINYEAR == 1

\* positions of the separator in s
SepPositions(s, sep) == {i \in 1..Len(s) : s[i] = sep}

\* the ways "<Y><sep><m><sep><d>" matches the whole of s
DateSplits(s, sep) ==
    {pq \in SepPositions(s, sep) \X SepPositions(s, sep) :
        /\ pq[1] < pq[2]
        /\ MatchesY(SubSeq(s, 1, pq[1] - 1))
        /\ MatchesMonth(SubSeq(s, pq[1] + 1, pq[2] - 1))
        /\ MatchesDay(SubSeq(s, pq[2] + 1, Len(s)))}

\* stands for the ValueError of strptime
DateError == [ok |-> FALSE, year |-> 0, month |-> 0, day |-> 0]

\* datetime(y, m, d) raises ValueError outside the calendar
CheckedDate(y, m, d) ==
    IF y < MINYEAR \/ d > DaysInMonth(y, m) THEN DateError
    ELSE [ok |-> TRUE, year |-> y, month |-> m, day |-> d]

DateAt(s, pq) ==
    CheckedDate(IntOf(SubSeq(s, 1, pq[1] - 1)),
                IntOf(SubSeq(s, pq[1] + 1, pq[2] - 1)),
                IntOf(lstrip(SubSeq(s, pq[2] + 1, Len(s)))))

DateFromSplits(s, sp) ==
    IF sp = {} THEN DateError ELSE DateAt(s, CHOOSE x \in sp : TRUE)

\* datetime.strptime(s, "%Y<sep>%m<sep>%d")
strptime_date(s, sep) == DateFromSplits(s, DateSplits(s, sep))

TwoDigits(n) == <<DigitChar[n \div 10], DigitChar[n % 10]>>

RECURSIVE DecimalOf(_)
DecimalOf(n) ==
    IF n < 10 THEN <<DigitChar[n]>>
    ELSE Append(DecimalOf(n \div 10), DigitChar[n % 10])

\* strftime("%Y"): the C library pads the year to four digits or, as glibc
\* does, prints it unpadded; pads says which library the build runs on
FormatYear(y, pads) ==
    IF pads
    THEN <<DigitChar[y \div 1000], DigitChar[(y \div 100) % 10],
           DigitChar[(y \div 10) % 10], DigitChar[y % 10]>>
    ELSE DecimalOf(y)

\* parsed_date.strftime("%Y-%m-%d")
strftime_date(dt, pads) ==
    FormatYear(dt.year, pads) \o <<"-">> \o TwoDigits(dt.month)
        \o <<"-">> \o TwoDigits(dt.day)

\* the ways "<H>:<M>" matches the whole of s
TimeSplits(s) ==
    {p \in SepPositions(s, ":") :
        /\ MatchesHour(SubSeq(s, 1, p - 1))
        /\ MatchesMinute(SubSeq(s, p + 1, Len(s)))}

TimeAt(s, p) ==
    [ok |-> TRUE, hour |-> IntOf(SubSeq(s, 1, p - 1)),
     minute |-> IntOf(SubSeq(s, p + 1, Len(s)))]

\* ok = FALSE stands for the ValueError of strptime
TimeFromSplits(s, sp) ==
    IF sp = {} THEN [ok |-> FALSE, hour |-> 0, minute |-> 0]
    ELSE TimeAt(s, CHOOSE x \in sp : TRUE)

\* datetime.strptime(s, "%H:%M").time()
strptime_time(s) == TimeFromSplits(s, TimeSplits(s))

\* datetime.time ordering, a < b
TimeLess(a, b) ==
    a.hour < b.hour \/ (a.hour = b.hour /\ a.minute < b.minute)

\* ------------------------------------------------------------------------
\* models.py: the pydantic models Item and Receipt.  A JSON object is a
\* function from the field names it carries to their values; every value of
\* a str field is a JSON string.  An error is [loc, msg]; the index of an
\* item in loc is written in decimal, as the handler's map(str, ...) does.
\* ------------------------------------------------------------------------

NoError == [ok |-> TRUE, msg |-> ""]

\* a variant that takes any number of digits after the point
MatchesAmountAnyFraction(v) ==
    \E p \in 2..(Len(v) - 1) :
        /\ v[p] = "."
        /\ IsDigits(SubSeq(v, 1, p - 1))
        /\ IsDigits(SubSeq(v, p + 1, Len(v)))

\* re.fullmatch(r'^\d+\.\d{2}$', v)
MatchesAmount(v) ==
    /\ Len(v) >= 4
    /\ v[Len(v) - 2] = "."
    /\ IsDigits(SubSeq(v, 1, Len(v) - 3))
    /\ IsDigits(SubSeq(v, Len(v) - 1, Len(v)))

description_not_empty(v) ==
    IF strip(v) = <<>>
    THEN [ok |-> FALSE, value |-> v,
          msg |-> "shortDescription cannot be empty or whitespace"]
    ELSE [ok |-> TRUE, value |-> v, msg |-> ""]

valid_price(v) ==
    IF ~MatchesAmount(v)
    THEN [ok |-> FALSE, value |-> v, msg |-> "Price must be in XX.XX format"]
    ELSE [ok |-> TRUE, value |-> v, msg |-> ""]

retailer_not_empty(v) ==
    IF strip(v) = <<>>
    THEN [ok |-> FALSE, value |-> v,
          msg |-> "Retailer cannot be empty or whitespace"]
    ELSE [ok |-> TRUE, value |-> v, msg |-> ""]

\* the loop over date_formats returns at the first format that parses
FirstFormat(v, d1, d2, padsYear) ==
    IF d1.ok
    THEN [ok |-> TRUE, value |-> strftime_date(d1, padsYear), msg |-> ""]
    ELSE IF d2.ok
    THEN [ok |-> TRUE, value |-> strftime_date(d2, padsYear), msg |-> ""]
    ELSE [ok |-> FALSE, value |-> v,
          msg |-> "purchaseDate must be a valid date in YYYY-MM-DD or YYYY/MM/DD format"]

valid_date(v, padsYear) ==
    FirstFormat(v, strptime_date(v, "-"), strptime_date(v, "/"), padsYear)

valid_time(v) ==
    IF ~strptime_time(v).ok
    THEN [ok |-> FALSE, value |-> v,
          msg |-> "purchaseTime must be a valid time in HH:MM format"]
    ELSE [ok |-> TRUE, value |-> v, msg |-> ""]

valid_total(v) ==
    IF ~MatchesAmount(v)
    THEN [ok |-> FALSE, value |-> v, msg |-> "Total must be in XX.XX format"]
    ELSE [ok |-> TRUE, value |-> v, msg |-> ""]

\* pydantic's treatment of one str field: required, then min_length, then
\* the field's validator; the first failure is the field's only error
StrField(obj, name, min_length, validated) ==
    IF name \notin DOMAIN obj
    THEN [ok |-> FALSE, value |-> <<>>, msg |-> "field required"]
    ELSE IF Len(obj[name]) < min_length
    THEN [ok |-> FALSE, value |-> obj[name],
          msg |-> "ensure this value has at least 1 characters"]
    ELSE validated

FieldErrors(loc, r) == IF r.ok THEN <<>> ELSE <<[loc |-> loc, msg |-> r.msg]>>

Item_shortDescription(item) ==
    StrField(item, "shortDescription", 1,
             description_not_empty(item["shortDescription"]))

Item_price(item) == StrField(item, "price", 0, valid_price(item["price"]))

ItemResult(loc, d, p) ==
    [errors |-> FieldErrors(Append(loc, "shortDescription"), d)
                \o FieldErrors(Append(loc, "price"), p),
     value  |-> [shortDescription |-> d.value, price |-> p.value]]

\* Item(**item): every field is validated, the errors are collected
Item(item, loc) == ItemResult(loc, Item_shortDescription(item), Item_price(item))

RECURSIVE Flatten(_)
Flatten(ss) == IF ss = <<>> THEN <<>> ELSE ss[1] \o Flatten(Tail(ss))

ItemListResult(its) ==
    [errors |-> Flatten([i \in 1..Len(its) |-> its[i].errors]),
     value  |-> [i \in 1..Len(its) |-> its[i].value]]

\* items: List[Item]
ItemList(body, loc) ==
    IF "items" \notin DOMAIN body
    THEN [errors |-> <<[loc |-> Append(loc, "items"), msg |-> "field required"]>>,
          value  |-> <<>>]
    ELSE ItemListResult([i \in 1..Len(body["items"]) |->
                           Item(body["items"][i],
                                loc \o <<"items", ToString(i - 1)>>)])

\* a variant that stops at the first field in error
ReceiptResultFirstError(loc, r, d, t, its, tot) ==
    [errors |-> SubSeq(FieldErrors(Append(loc, "retailer"), r)
                       \o FieldErrors(Append(loc, "purchaseDate"), d)
                       \o FieldErrors(Append(loc, "purchaseTime"), t)
                       \o its.errors
                       \o FieldErrors(Append(loc, "total"), tot), 1, 1),
     value  |-> [retailer |-> r.value, purchaseDate |-> d.value,
                 purchaseTime |-> t.value, items |-> its.value,
                 total |-> tot.value]]

ReceiptResult(loc, r, d, t, its, tot) ==
    [errors |-> FieldErrors(Append(loc, "retailer"), r)
                \o FieldErrors(Append(loc, "purchaseDate"), d)
                \o FieldErrors(Append(loc, "purchaseTime"), t)
                \o its.errors
                \o FieldErrors(Append(loc, "total"), tot),
     value  |-> [retailer |-> r.value, purchaseDate |-> d.value,
                 purchaseTime |-> t.value, items |-> its.value,
                 total |-> tot.value]]

\* Receipt(**body): every field is validated in declaration order and the
\* errors of all of them are collected
Receipt(body, padsYear) ==
    ReceiptResult(<<"body">>,
        StrField(body, "retailer", 1, retailer_not_empty(body["retailer"])),
        StrField(body, "purchaseDate", 0,
                 valid_date(body["purchaseDate"], padsYear)),
        StrField(body, "purchaseTime", 0, valid_time(body["purchaseTime"])),
        ItemList(body, <<"body">>),
        StrField(body, "total", 0, valid_total(body["total"])))

\* ------------------------------------------------------------------------
\* main.py
\* ------------------------------------------------------------------------

RECURSIVE Join(_, _)
Join(parts, sep) ==
    IF Len(parts) = 0 THEN ""
    ELSE IF Len(parts) = 1 THEN parts[1]
    ELSE parts[1] \o sep \o Join(Tail(parts), sep)

\* f"{'.'.join(map(str, error['loc'][1:]))}: {error['msg']}"
ErrorMessage(error) == Join(Tail(error.loc), ".") \o ": " \o error.msg

validation_exception_handler(errors) ==
    [status  |-> 400,
     content |-> [error |-> [i \in 1..Len(errors) |-> ErrorMessage(errors[i])]]]

\* sum(c.isalnum() for c in receipt.retailer)
RetailerPoints(receipt) ==
    SmallToBig(Cardinality({i \in 1..Len(receipt.retailer) :
                              isalnum(receipt.retailer[i])}))

\* 50 points if float(total).is_integer()
RoundDollarPoints(receipt) ==
    IF is_integer(float(receipt.total)) THEN <<50>> ELSE <<0>>

\* 25 points if float(total) % 0.25 == 0
QuarterPoints(receipt) ==
    IF ModQuarterIsZero(float(receipt.total)) THEN <<25>> ELSE <<0>>

\* (len(receipt.items) // 2) * 5
PairPoints(receipt) == SmallToBig((Len(receipt.items) \div 2) * 5)

\* math.ceil(product): OverflowError on an infinite float
CeilOrRaise(product) ==
    IF product.inf THEN [exc |-> "OverflowError", points |-> <<0>>]
    ELSE [exc |-> "none", points |-> ceil(product)]

\* the body of the loop over receipt.items
ItemPoints(item) ==
    IF Len(strip(item.shortDescription)) % 3 = 0
    THEN CeilOrRaise(FloatMul(float(item.price), Float02))
    ELSE [exc |-> "none", points |-> <<0>>]

RECURSIVE ItemsLoop(_, _, _)

\* r is what the loop body gave for items[i]
LoopStep(items, i, acc, r) ==
    IF r.exc # "none" THEN r
    ELSE ItemsLoop(items, i + 1, BigAdd(acc, r.points))

\* for item in receipt.items, from items[i] on, acc the points so far
ItemsLoop(items, i, acc) ==
    IF i > Len(items) THEN [exc |-> "none", points |-> acc]
    ELSE LoopStep(items, i, acc, ItemPoints(items[i]))

\* 6 points if the day of datetime.strptime(purchaseDate, "%Y-%m-%d") is odd
OddDayPoints(purchase_date) ==
    IF purchase_date.day % 2 # 0 THEN <<6>> ELSE <<0>>

start_time == [hour |-> 14, minute |-> 0]

end_time == [hour |-> 16, minute |-> 0]

\* a variant with start_time <= purchase_time <= end_time
AfternoonPointsInclusive(purchase_time) ==
    IF ~TimeLess(purchase_time, start_time) /\ ~TimeLess(end_time, purchase_time)
    THEN <<10>> ELSE <<0>>

\* 10 points if start_time < purchase_time < end_time
AfternoonPoints(purchase_time) ==
    IF TimeLess(start_time, purchase_time) /\ TimeLess(purchase_time, end_time)
    THEN <<10>> ELSE <<0>>

\* the statements of calculate_points in order: an exception of the loop
\* comes before one of the two strptime calls
PointsOrRaise(receipt, items_points, purchase_date, purchase_time) ==
    IF items_points.exc # "none"
    THEN [exc |-> items_points.exc, points |-> <<0>>]
    ELSE IF ~purchase_date.ok \/ ~purchase_time.ok
    THEN [exc |-> "ValueError", points |-> <<0>>]
    ELSE [exc |-> "none",
          points |->
            BigAdd(RetailerPoints(receipt),
            BigAdd(RoundDollarPoints(receipt),
            BigAdd(QuarterPoints(receipt),
            BigAdd(PairPoints(receipt),
            BigAdd(items_points.points,
            BigAdd(OddDayPoints(purchase_date),
                   AfternoonPoints(purchase_time)))))))]

\* calculate_points(receipt): exc names the exception it raises, if any
calculate_points(receipt) ==
    PointsOrRaise(receipt,
                  ItemsLoop(receipt.items, 1, <<0>>),
                  strptime_date(receipt.purchaseDate, "-"),
                  strptime_time(receipt.purchaseTime))

\* ------------------------------------------------------------------------
\* Inputs: the str values the requests of the model carry
\* ------------------------------------------------------------------------

StrTarget ==
    <<"T", "a", "r", "g", "e", "t">>

StrMMCornerMarket ==
    <<"M", "&", "M", " ", "C", "o", "r", "n", "e", "r", " ", "M", "a", "r",
      "k", "e", "t">>

StrPaddedShop ==
    <<" ", " ", "S", "h", "o", "p", " ", "2", "4", " ", " ">>

StrMountainDew ==
    <<"M", "o", "u", "n", "t", "a", "i", "n", " ", "D", "e", "w", " ", "1",
      "2", "P", "K">>

StrEmilsPizza ==
    <<"E", "m", "i", "l", "s", " ", "C", "h", "e", "e", "s", "e", " ", "P",
      "i", "z", "z", "a">>

StrKnorrChicken ==
    <<"K", "n", "o", "r", "r", " ", "C", "r", "e", "a", "m", "y", " ", "C",
      "h", "i", "c", "k", "e", "n">>

StrDoritos ==
    <<"D", "o", "r", "i", "t", "o", "s", " ", "N", "a", "c", "h", "o", " ",
      "C", "h", "e", "e", "s", "e">>

StrKlarbrunn ==
    <<" ", " ", " ", "K", "l", "a", "r", "b", "r", "u", "n", "n", " ", "1",
      "2", "-", "P", "K", " ", "1", "2", " ", "F", "L", " ", "O", "Z", " ",
      " ">>

StrGatorade ==
    <<"G", "a", "t", "o", "r", "a", "d", "e">>

StrAbc ==
    <<"a", "b", "c">>

StrAb ==
    <<"a", "b">>

StrBlank ==
    <<" ", " ", " ">>

\* "int.frac" written out from its two digit strings
Amount(ip, fp) == ip \o <<".">> \o fp

RECURSIVE CharsOfFrom(_, _, _)
CharsOfFrom(n, width, acc) ==
    IF width = 0 THEN acc
    ELSE CharsOfFrom(n \div 10, width - 1, <<DigitChar[n % 10]>> \o acc)

\* the decimal digits of n, zero-padded to the width
CharsOf(n, width) == CharsOfFrom(n, width, <<>>)

\* "<dollars>.<cents>" for small numbers
Money(dollars, cents) == Amount(DecimalOf(dollars), CharsOf(cents, 2))

\* "YYYY<sep>MM<sep>DD"
DateStr(y, m, d, sep) ==
    CharsOf(y, 4) \o <<sep>> \o CharsOf(m, 2) \o <<sep>> \o CharsOf(d, 2)

\* "HH:MM"
TimeStr(h, m) == CharsOf(h, 2) \o <<":">> \o CharsOf(m, 2)

\* 2^47 = 140737488355328: from here on the binary64 grid is coarser than
\* a cent can resolve against a quarter
Str2Pow47 ==
    <<"1", "4", "0", "7", "3", "7", "4", "8", "8", "3", "5", "5", "3", "2", "8">>

\* 2^47 + 2, a multiple of 5
Str2Pow47Plus2 ==
    <<"1", "4", "0", "7", "3", "7", "4", "8", "8", "3", "5", "5", "3", "3", "0">>

\* 2^47 - 1
Str2Pow47Minus1 ==
    <<"1", "4", "0", "7", "3", "7", "4", "8", "8", "3", "5", "5", "3", "2", "7">>

\* an integer part of MaxIntDigits + 1 digits
StrHuge == [i \in 1..(MaxIntDigits + 1) |-> "9"]

MkItem(d, p) == [shortDescription |-> d, price |-> p]

MkBody(retailer, purchaseDate, purchaseTime, items, total) ==
    [retailer |-> retailer, purchaseDate |-> purchaseDate,
     purchaseTime |-> purchaseTime, items |-> items, total |-> total]

\* a five-item receipt scoring 28
Example1 ==
    MkBody(StrTarget, DateStr(2022, 1, 1, "-"), TimeStr(13, 1),
           <<MkItem(StrMountainDew, Money(6, 49)),
             MkItem(StrEmilsPizza, Money(12, 25)),
             MkItem(StrKnorrChicken, Money(1, 26)),
             MkItem(StrDoritos, Money(3, 35)),
             MkItem(StrKlarbrunn, Money(12, 0))>>,
           Money(35, 35))

\* a four-item receipt scoring 109
Example2 ==
    MkBody(StrMMCornerMarket, DateStr(2022, 3, 20, "-"), TimeStr(14, 33),
           <<MkItem(StrGatorade, Money(2, 25)), MkItem(StrGatorade, Money(2, 25)),
             MkItem(StrGatorade, Money(2, 25)), MkItem(StrGatorade, Money(2, 25))>>,
           Money(9, 0))

\* ------------------------------------------------------------------------
\* The service
\* ------------------------------------------------------------------------

\* bound: number of POST requests of a behaviour
MaxPosts == 2

\* the 128-bit values uuid4() can return, cut down to two hex digits
UuidValues == {26, 27, 161}

HexChar ==
    0 :> "0" @@ 1 :> "1" @@ 2 :> "2" @@ 3 :> "3" @@ 4 :> "4" @@ 5 :> "5" @@
    6 :> "6" @@ 7 :> "7" @@ 8 :> "8" @@ 9 :> "9" @@ 10 :> "a" @@ 11 :> "b" @@
    12 :> "c" @@ 13 :> "d" @@ 14 :> "e" @@ 15 :> "f"

\* str(u): the hex digits of u in hyphen-separated groups
UuidStr(u) == <<HexChar[u \div 16], "-", HexChar[u % 16]>>

\* a variant that keeps the first group of hex digits only
NewReceiptIdFirstGroup(u) == SubSeq(UuidStr(u), 1, 1)

\* str(uuid4()).strip()
NewReceiptId(u) == strip(UuidStr(u))

\* the path values GET requests carry: every identifier, and one that is none
PathIds == {UuidStr(u) : u \in UuidValues} \cup {<<"z">>}

\* two violations: items.0.price and total
BodyTwoViolations ==
    MkBody(StrTarget, DateStr(2022, 1, 1, "-"), TimeStr(13, 1),
           <<MkItem(StrAbc, <<"1", "2", ".", "5">>)>>, <<"9", ".", "0">>)

\* accepted by the validators; its year loses a digit where "%Y" is unpadded
BodyYear999 ==
    MkBody(StrTarget, DateStr(999, 1, 2, "/"), TimeStr(13, 1), <<>>, Money(1, 10))

BodySlashDate ==
    MkBody(StrTarget, DateStr(2022, 1, 1, "/"), TimeStr(15, 0),
           <<MkItem(StrAbc, Money(5, 1))>>, Money(9, 25))

\* the bodies POST requests carry
Bodies ==
    {Example2, BodySlashDate, BodyTwoViolations, BodyYear999}

VARIABLES
    receipts,   \* main.py line 13: receipt id -> points
    inbox,      \* POST bodies received and not yet validated
    ready,      \* validated Receipt objects whose handler has not run yet
    last,       \* the step taken last: operation, input and response
    posted,     \* number of POST requests so far
    pads,       \* whether this build's strftime pads "%Y" to four digits
    issued,     \* history: the values uuid4() has returned
    returned,   \* history: id, receipt and points of each 200 answer of a POST
    okCount,    \* history: number of 200 answers of POST requests
    scored      \* history: the receipts calculate_points was called with

vars ==
    <<receipts, inbox, ready, last, posted, pads, issued, returned, okCount,
      scored>>

NoResponse == [status |-> 0, content |-> <<>>]

\* what last records of a step: the operation, its input and the response
Answer(op, input, resp) ==
    [op |-> op, input |-> input, status |-> resp.status, content |-> resp.content]

TypeOK ==
    /\ posted \in 0..MaxPosts
    /\ pads \in BOOLEAN
    /\ issued \subseteq UuidValues
    /\ okCount \in 0..MaxPosts
    /\ last.op \in {"none", "receive", "validate", "process_receipt", "get_points"}
    /\ last.status \in {0, 200, 400, 404, 500}

Init ==
    /\ receipts = <<>>
    /\ inbox = EmptyBag
    /\ ready = EmptyBag
    /\ last = [op |-> "none", input |-> <<>>, status |-> 0, content |-> <<>>]
    /\ posted = 0
    /\ pads \in BOOLEAN
    /\ issued = {}
    /\ returned = {}
    /\ okCount = 0
    /\ scored = {}

\* a POST /receipts/process request arrives
Receive(body) ==
    /\ posted < MaxPosts
    /\ posted' = posted + 1
    /\ inbox' = inbox (+) SetToBag({body})
    /\ last' = Answer("receive", body, NoResponse)
    /\ UNCHANGED <<receipts, ready, pads, issued, returned, okCount, scored>>

\* FastAPI builds Receipt from the body and it fails: RequestValidationError
\* goes to validation_exception_handler; process_receipt is not called
ValidationFails(body) ==
    /\ BagIn(body, inbox)
    /\ Receipt(body, pads).errors # <<>>
    /\ last' = Answer("validate", body,
                      validation_exception_handler(Receipt(body, pads).errors))
    /\ inbox' = inbox (-) SetToBag({body})
    /\ UNCHANGED <<receipts, ready, posted, pads, issued, returned, okCount, scored>>

\* FastAPI builds Receipt from the body and hands it to process_receipt
ValidationPasses(body) ==
    /\ BagIn(body, inbox)
    /\ Receipt(body, pads).errors = <<>>
    /\ ready' = ready (+) SetToBag({Receipt(body, pads).value})
    /\ inbox' = inbox (-) SetToBag({body})
    /\ last' = Answer("validate", body, NoResponse)
    /\ UNCHANGED <<receipts, posted, pads, issued, returned, okCount, scored>>

\* a variant of lines 27-28 that rebinds receipts to a dict of the new entry
StoreAndAnswerRebinding(receipt, receipt_id, result) ==
    IF result.exc # "none"
    THEN /\ last' = Answer("process_receipt", receipt,
                           [status |-> 500, content |-> [error |-> result.exc]])
         /\ UNCHANGED <<receipts, returned, okCount>>
    ELSE /\ receipts' = (receipt_id :> result.points)
         /\ last' = Answer("process_receipt", receipt,
                           [status |-> 200, content |-> [id |-> receipt_id]])
         /\ returned' =
              returned \cup {[id |-> receipt_id, receipt |-> receipt,
                              points |-> result.points]}
         /\ okCount' = okCount + 1

\* main.py lines 27-28, once calculate_points has returned or raised: an
\* exception leaves the store alone and is answered with status 500
StoreAndAnswer(receipt, receipt_id, result) ==
    IF result.exc # "none"
    THEN /\ last' = Answer("process_receipt", receipt,
                           [status |-> 500, content |-> [error |-> result.exc]])
         /\ UNCHANGED <<receipts, returned, okCount>>
    ELSE /\ receipts' = (receipt_id :> result.points) @@ receipts
         /\ last' = Answer("process_receipt", receipt,
                           [status |-> 200, content |-> [id |-> receipt_id]])
         /\ returned' =
              returned \cup {[id |-> receipt_id, receipt |-> receipt,
                              points |-> result.points]}
         /\ okCount' = okCount + 1

\* process_receipt(receipt), main.py lines 26-28
process_receipt(receipt) ==
    /\ BagIn(receipt, ready)
    /\ ready' = ready (-) SetToBag({receipt})
    /\ scored' = scored \cup {receipt}
    /\ \E u \in UuidValues \ issued :
         /\ issued' = issued \cup {u}
         /\ StoreAndAnswer(receipt, NewReceiptId(u), calculate_points(receipt))
    /\ UNCHANGED <<inbox, posted, pads>>

NotFoundMessage == "No receipt found for that ID."

\* a variant that answers a miss with receipts.get(receipt_id, 0)
get_points_defaulting(receipt_id) ==
    /\ IF receipt_id \notin DOMAIN receipts
       THEN last' = Answer("get_points", receipt_id,
                           [status |-> 200, content |-> [points |-> <<0>>]])
       ELSE last' = Answer("get_points", receipt_id,
                           [status |-> 200,
                            content |-> [points |-> receipts[receipt_id]]])
    /\ UNCHANGED <<receipts, inbox, ready, posted, pads, issued, returned,
                   okCount, scored>>

\* get_points(receipt_id), main.py lines 42-48
get_points(receipt_id) ==
    /\ IF receipt_id \notin DOMAIN receipts
       THEN last' = Answer("get_points", receipt_id,
                           [status |-> 404, content |-> [error |-> NotFoundMessage]])
       ELSE last' = Answer("get_points", receipt_id,
                           [status |-> 200,
                            content |-> [points |-> receipts[receipt_id]]])
    /\ UNCHANGED <<receipts, inbox, ready, posted, pads, issued, returned,
                   okCount, scored>>

Next ==
    \/ \E body \in Bodies : Receive(body)
    \/ \E body \in BagToSet(inbox) : ValidationFails(body)
    \/ \E body \in BagToSet(inbox) : ValidationPasses(body)
    \/ \E receipt \in BagToSet(ready) : process_receipt(receipt)
    \/ \E receipt_id \in PathIds : get_points(receipt_id)

Spec == Init /\ [][Next]_vars

\* ------------------------------------------------------------------------
\* One submission at a time, over a wide range of bodies: validation and
\* calculate_points as functions of the body
\* ------------------------------------------------------------------------

Restrict(f, missing) == [k \in DOMAIN f \ missing |-> f[k]]

ScoreTimes ==
    {TimeStr(hm[1], hm[2]) :
        hm \in {<<0, 0>>, <<13, 1>>, <<13, 59>>, <<14, 0>>, <<14, 1>>, <<14, 33>>,
                <<15, 0>>, <<15, 59>>, <<16, 0>>, <<16, 1>>, <<23, 59>>}}
    \cup {<<"9", ":", "5">>, <<"1", "5", ":", "5">>}

ScoreTotals ==
    {Money(d, c) : d \in {0, 35}, c \in {0, 1, 10, 25, 50, 75, 99}}
    \cup {Amount(Str2Pow47, <<"0", "1">>), Amount(Str2Pow47Minus1, <<"0", "1">>),
          Amount(Str2Pow47, <<"2", "5">>), Amount(Str2Pow47, <<"0", "0">>),
          Amount(<<"0", "0", "9">>, <<"0", "0">>)}

ScoreDates ==
    {DateStr(2022, 1, 1, "-"), DateStr(2022, 1, 1, "/"), DateStr(2022, 3, 20, "-"),
     DateStr(2022, 3, 20, "/"), DateStr(2024, 2, 29, "-"), DateStr(999, 1, 3, "/"),
     <<"2", "0", "2", "2", "-", "1", "-", "1">>}

ScoreItemLists ==
    {<<>>,
     <<MkItem(StrAbc, Money(5, 0))>>,
     <<MkItem(StrAbc, Money(5, 1))>>,
     <<MkItem(StrAbc, Money(0, 0))>>,
     <<MkItem(StrAbc, Money(0, 1))>>,
     <<MkItem(StrAb, Money(5, 0))>>,
     <<MkItem(StrKlarbrunn, Money(12, 0))>>,
     <<MkItem(StrAbc, Money(4, 99)), MkItem(StrGatorade, Money(2, 25))>>,
     <<MkItem(StrAbc, Money(10, 0)), MkItem(StrAb, Money(1, 0)),
       MkItem(StrEmilsPizza, Money(12, 25))>>,
     Example1.items,
     Example2.items,
     <<MkItem(StrAbc, Amount(Str2Pow47Plus2, <<"0", "1">>))>>,
     <<MkItem(StrAbc, Amount(StrHuge, <<"0", "0">>))>>,
     <<MkItem(StrAb, Amount(StrHuge, <<"0", "0">>))>>}

\* bodies every field of which is well-formed
WellFormedBodies ==
    {MkBody(StrTarget, DateStr(2022, 1, 1, "-"), t, <<>>, tot) :
        t \in ScoreTimes, tot \in ScoreTotals}
    \cup {MkBody(r, d, TimeStr(13, 1), its, Money(35, 35)) :
            r \in {StrMMCornerMarket, StrPaddedShop}, d \in ScoreDates,
            its \in ScoreItemLists}
    \cup {Example1, Example2}

\* bodies whose fields are well-formed or not, one by one, or missing
MixedBodies ==
    {Restrict(MkBody(r, d, t, <<MkItem(sd, p), MkItem(StrAbc, p)>>, tot), missing) :
        r \in {StrTarget, StrBlank, <<>>},
        d \in {DateStr(2022, 1, 1, "/"), DateStr(2022, 2, 30, "-")},
        t \in {TimeStr(15, 0), TimeStr(24, 0)},
        sd \in {StrAbc, StrBlank},
        p \in {Money(5, 0), <<"1", "2", ".", "5">>, <<"1", "2", ".", "5", "0", "0">>},
        tot \in {Money(9, 0), <<"a", "b", "c">>},
        missing \in {{}, {"retailer"}, {"items"}, {"purchaseDate", "total"}}}

ScoreBodies == WellFormedBodies \cup MixedBodies

ScoreInit ==
    /\ receipts = <<>>
    /\ \E body \in ScoreBodies :
         /\ inbox = SetToBag({body})
         /\ last = Answer("receive", body, NoResponse)
    /\ ready = EmptyBag
    /\ posted = 1
    /\ pads \in BOOLEAN
    /\ issued = {}
    /\ returned = {}
    /\ okCount = 0
    /\ scored = {}

ScoreNext ==
    \/ \E body \in BagToSet(inbox) : ValidationFails(body)
    \/ \E body \in BagToSet(inbox) : ValidationPasses(body)
    \/ \E receipt \in BagToSet(ready) : process_receipt(receipt)

ScoreSpec == ScoreInit /\ [][ScoreNext]_vars


\* ------------------------------------------------------------------------
\* The scoring rules as stated, in exact decimal arithmetic on the strings
\* of a validated receipt
\* ------------------------------------------------------------------------

\* the two digits after the point, as a number
CentsPart(amount) == IntOf(SubSeq(amount, Len(amount) - 1, Len(amount)))

\* the amount in cents, an integer of any size
PriceCents(amount) ==
    FromDigits(DigitValues(SubSeq(amount, 1, Len(amount) - 3)
                           \o SubSeq(amount, Len(amount) - 1, Len(amount))))

\* ceil(a / d) from divmod(a, d)
CeilOfDivMod(d) == IF d.r = 0 THEN d.q ELSE BigAdd(d.q, <<1>>)

\* 75 for cents 00, 25 for cents 25, 50 and 75, and 0 otherwise
StatedTotalPoints(total) ==
    IF CentsPart(total) = 0 THEN <<75>>
    ELSE IF CentsPart(total) % 25 = 0 THEN <<25>>
    ELSE <<0>>

StatedPairPoints(items) == SmallToBig(5 * (Len(items) \div 2))

TrimmedLength(item) == Len(strip(item.shortDescription))

\* ceil(price_cents / 500) for a trimmed length that is a positive multiple
\* of 3, and 0 otherwise
StatedItemPoints(item) ==
    IF TrimmedLength(item) > 0 /\ TrimmedLength(item) % 3 = 0
    THEN CeilOfDivMod(BigDivSmall(PriceCents(item.price), 500))
    ELSE <<0>>

RECURSIVE StatedItemsPoints(_, _)
StatedItemsPoints(items, i) ==
    IF i > Len(items) THEN <<0>>
    ELSE BigAdd(StatedItemPoints(items[i]), StatedItemsPoints(items, i + 1))

\* the day is the last two characters of a normalized date
StatedOddDayPoints(purchaseDate) ==
    IF IntOf(SubSeq(purchaseDate, Len(purchaseDate) - 1, Len(purchaseDate))) % 2 = 1
    THEN <<6>> ELSE <<0>>

ColonAt(s) == CHOOSE i \in 1..Len(s) : s[i] = ":"

\* minutes since midnight of "H:M"
MinuteOfDay(s) ==
    60 * IntOf(SubSeq(s, 1, ColonAt(s) - 1))
    + IntOf(SubSeq(s, ColonAt(s) + 1, Len(s)))

\* 10 strictly between 14:00 and 16:00, and 0 otherwise
StatedAfternoonPoints(purchaseTime) ==
    IF 14 * 60 < MinuteOfDay(purchaseTime) /\ MinuteOfDay(purchaseTime) < 16 * 60
    THEN <<10>> ELSE <<0>>

Sum7(a, b, c, d, e, f, g) ==
    BigAdd(a, BigAdd(b, BigAdd(c, BigAdd(d, BigAdd(e, BigAdd(f, g))))))

\* process_receipt has just answered 200: the receipt it was given and the
\* points now stored under the identifier of the answer
JustScored == last.op = "process_receipt" /\ last.status = 200

StoredPoints == receipts[last.content.id]

CodeItemsPoints(receipt) == ItemsLoop(receipt.items, 1, <<0>>).points

CodeOddDayPoints(receipt) ==
    OddDayPoints(strptime_date(receipt.purchaseDate, "-"))

CodeAfternoonPoints(receipt) ==
    AfternoonPoints(strptime_time(receipt.purchaseTime))

\* C9: the points stored for a scored receipt are the other six bonuses plus
\* 10 exactly when purchaseTime is strictly after 14:00 and strictly before
\* 16:00
C9_AfternoonStrictlyInside ==
    JustScored =>
        StoredPoints =
            Sum7(RetailerPoints(last.input), RoundDollarPoints(last.input),
                 QuarterPoints(last.input), PairPoints(last.input),
                 CodeItemsPoints(last.input), CodeOddDayPoints(last.input),
                 StatedAfternoonPoints(last.input.purchaseTime))

\* a receipt bought at 16:00 sharp has been scored
C9_Witness ==
    /\ JustScored
    /\ last.input.purchaseTime = TimeStr(16, 0)
    /\ last.input.total = Money(35, 25)
    /\ StoredPoints = <<37>>

\* C8: the two rules on the total give a scored receipt 75 points for cents
\* 00, 25 for cents 25, 50 and 75, and nothing otherwise
C8_TotalRulesByCents ==
    JustScored =>
        StoredPoints =
            Sum7(RetailerPoints(last.input),
                 StatedTotalPoints(last.input.total), <<0>>,
                 PairPoints(last.input), CodeItemsPoints(last.input),
                 CodeOddDayPoints(last.input), CodeAfternoonPoints(last.input))

\* C7: every item of a scored receipt adds ceil(price_cents / 500) when its
\* trimmed description length is a positive multiple of 3 and nothing
\* otherwise, and no item of it has an empty trimmed description
C7_DescriptionBonusExact ==
    JustScored =>
        /\ \A i \in 1..Len(last.input.items) :
             TrimmedLength(last.input.items[i]) > 0
        /\ StoredPoints =
             Sum7(RetailerPoints(last.input), RoundDollarPoints(last.input),
                  QuarterPoints(last.input), PairPoints(last.input),
                  StatedItemsPoints(last.input.items, 1),
                  CodeOddDayPoints(last.input), CodeAfternoonPoints(last.input))

\* C6: the points stored for a scored receipt are the sum of the seven
\* bonuses as stated; the two examples score 28 and 109
C6_SumOfSevenRules ==
    JustScored =>
        /\ StoredPoints =
             Sum7(RetailerPoints(last.input),
                  StatedTotalPoints(last.input.total), <<0>>,
                  StatedPairPoints(last.input.items),
                  StatedItemsPoints(last.input.items, 1),
                  StatedOddDayPoints(last.input.purchaseDate),
                  StatedAfternoonPoints(last.input.purchaseTime))
        /\ last.input = Example1 => StoredPoints = <<28>>
        /\ last.input = Example2 => StoredPoints = <<109>>

\* the date of a validated receipt written with '/' for '-'
WithSlashDate(receipt) ==
    [receipt EXCEPT !.purchaseDate =
        [i \in 1..Len(@) |-> IF @[i] = "-" THEN "/" ELSE @[i]]]

\* C10: process_receipt, called with a receipt that passed validation,
\* answers 200 with an identifier under which the score is stored, and the
\* same receipt with its date written with '/' validates and scores the same
C10_ScoringNeverFails ==
    last.op = "process_receipt" =>
        /\ last.status = 200
        /\ last.content.id \in DOMAIN receipts
        /\ Receipt(WithSlashDate(last.input), pads).errors = <<>>
        /\ calculate_points(Receipt(WithSlashDate(last.input), pads).value).points
             = receipts[last.content.id]

\* ------------------------------------------------------------------------
\* The field rules as stated, on a submitted body
\* ------------------------------------------------------------------------

IsBlank(v) == \A i \in 1..Len(v) : v[i] \in WhitespaceChars

\* one or more digits, a point, two digits
IsAmount(v) ==
    /\ Len(v) >= 4
    /\ \A i \in 1..Len(v) :
         IF i = Len(v) - 2 THEN v[i] = "." ELSE v[i] \in DigitChars

IsDate(v) == strptime_date(v, "-").ok \/ strptime_date(v, "/").ok

IsTime(v) == strptime_time(v).ok

\* the path of a field that is missing or breaks its rule
Violated(obj, name, path, good) ==
    IF name \in DOMAIN obj /\ good THEN {} ELSE {path}

ItemPath(i, name) == "items." \o ToString(i - 1) \o "." \o name

ItemViolations(items, i) ==
    Violated(items[i], "shortDescription", ItemPath(i, "shortDescription"),
             ~IsBlank(items[i]["shortDescription"]))
    \cup Violated(items[i], "price", ItemPath(i, "price"),
                  IsAmount(items[i]["price"]))

ItemsViolations(body) ==
    IF "items" \notin DOMAIN body THEN {"items"}
    ELSE UNION {ItemViolations(body["items"], i) : i \in 1..Len(body["items"])}

\* the dotted paths of the fields of a body that are in violation
Violations(body) ==
    Violated(body, "retailer", "retailer", ~IsBlank(body["retailer"]))
    \cup Violated(body, "purchaseDate", "purchaseDate", IsDate(body["purchaseDate"]))
    \cup Violated(body, "purchaseTime", "purchaseTime", IsTime(body["purchaseTime"]))
    \cup ItemsViolations(body)
    \cup Violated(body, "total", "total", IsAmount(body["total"]))

ValidationMessages ==
    {"field required", "ensure this value has at least 1 characters",
     description_not_empty(<<>>).msg, valid_price(<<>>).msg,
     retailer_not_empty(<<>>).msg, valid_date(<<>>, TRUE).msg,
     valid_time(<<>>).msg, valid_total(<<>>).msg}

EntriesOf(path) == {path \o ": " \o msg : msg \in ValidationMessages}

\* validation has just answered the submitted body last.input with 400
JustRejected == last.op = "validate" /\ last.status = 400

ErrorList == last.content.error

\* C3: the error list of a 400 answer has one entry for each field in
\* violation and no other, each entry the dotted path of the field, without
\* the leading "body", then ": " and a message
C3_OneEntryPerViolation ==
    JustRejected =>
        /\ Len(ErrorList) = Cardinality(Violations(last.input))
        /\ \A path \in Violations(last.input) :
             \E i \in 1..Len(ErrorList) : ErrorList[i] \in EntriesOf(path)
        /\ \A i \in 1..Len(ErrorList) :
             \E path \in Violations(last.input) : ErrorList[i] \in EntriesOf(path)

\* a body with seven fields in violation, three of them in its items, has
\* been answered
C3_Witness ==
    /\ JustRejected
    /\ Cardinality(Violations(last.input)) = 7
    /\ "items.1.price" \in Violations(last.input)
    /\ Len(ErrorList) = 7

\* ------------------------------------------------------------------------
\* The service under interleaved requests
\* ------------------------------------------------------------------------

ReturnedIds == {r.id : r \in returned}

\* C1: every identifier a 200 answer of a submission carried is in the store
\* with the points calculate_points gave for the receipt of that submission,
\* and a retrieval of it answers 200 with those points
C1_ReturnedEntriesKept ==
    \A r \in returned :
        /\ r.id \in DOMAIN receipts
        /\ receipts[r.id] = r.points
        /\ r.points = calculate_points(r.receipt).points
        /\ (last.op = "get_points" /\ last.input = r.id) =>
               /\ last.status = 200
               /\ last.content = [points |-> r.points]

\* the first of two stored receipts is retrieved after the second was stored
C1_Witness ==
    /\ Cardinality(returned) = 2
    /\ last.op = "get_points"
    /\ last.status = 200
    /\ \E r \in returned :
         /\ r.id = last.input
         /\ r.receipt = Example2
         /\ r.points = <<109>>
    /\ \E r \in returned : r.id # last.input /\ r.points # <<109>>

\* C2: the step that validates a body with a field in violation answers 400
\* and changes neither the store nor what is handed to, or was scored by,
\* process_receipt, and draws no identifier
C2_InvalidNeverScoredNorStored ==
    [][(/\ last'.op = "validate"
        /\ inbox' # inbox
        /\ Violations(last'.input) # {})
       => (/\ last'.status = 400
           /\ receipts' = receipts
           /\ ready' = ready
           /\ scored' = scored
           /\ issued' = issued
           /\ returned' = returned)]_vars

\* a body with violations has been answered 400 while the store holds a
\* receipt
C2_Witness ==
    /\ JustRejected
    /\ Violations(last.input) = {"items.0.price", "total"}
    /\ DOMAIN receipts # {}

\* C4: the identifiers of the 200 answers of the submissions are pairwise
\* distinct, and each has its own entry in the store
C4_DistinctIdentifiers ==
    /\ Cardinality(ReturnedIds) = okCount
    /\ Cardinality(DOMAIN receipts) = okCount

\* two submissions have both been answered 200
C4_Witness ==
    /\ okCount = 2
    /\ posted = 2
    /\ Cardinality(ReturnedIds) = 2

\* C5: a retrieval of an identifier no 200 answer of a submission carried
\* answers 404 with the fixed body, and no retrieval changes the store
C5_UnknownIdNotFound ==
    [][(last'.op = "get_points" /\ last' # last)
       => (/\ receipts' = receipts
           /\ last'.input \notin ReturnedIds =>
                /\ last'.status = 404
                /\ last'.content = [error |-> "No receipt found for that ID."])]_vars

\* an identifier that was not returned is retrieved from a store that holds
\* a receipt
C5_Witness ==
    /\ last.op = "get_points"
    /\ last.status = 404
    /\ last.input \notin ReturnedIds
    /\ last.input \in PathIds
    /\ DOMAIN receipts # {}

====
